---- MODULE Spec2Model ----
(***************************************************************************)
(* A model of src/src/lib.rs: UntypedBytes, a Vec<u8> holding the raw      *)
(* memory images of Copy values, with its constructors, appends, clear and *)
(* cast.  Memory is modelled byte by byte (bytes past len, padding bytes   *)
(* and spare capacity are uninitialised), and the allocator's ownership    *)
(* bookkeeping is modelled for the two functions that play with raw parts  *)
(* (from_vec and the owned branches of extend).                            *)
(***************************************************************************)
EXTENDS Integers, Sequences, FiniteSets, TLC

VARIABLES alive, self, heap, host, appended, origin, last

vars == <<alive, self, heap, host, appended, origin, last>>

---------------------------------------------------------------------------
(* Bounds of the model *)

\* the longest byte content an append or constructor may produce
MaxLen == 3
\* the longest typed sequence handed to one call
MaxElems == 2
\* the largest argument of with_capacity
MaxCap == 2
\* the largest spare capacity (in elements) of a source Vec<T>
MaxSpare == 1
\* the number of allocation identifiers
NumAllocs == 3
\* the modelled width of usize
UsizeBits == 16

---------------------------------------------------------------------------
(* Memory, types and their raw images *)

\* a byte of memory that was never written (padding, spare capacity)
Uninit == -1

\* RawVec<u8>'s smallest non-zero capacity when it grows
MinNonZeroCap == 8

UsizeMax == 2^UsizeBits - 1

Max(a, b) == IF a >= b THEN a ELSE b

\* the element types T: Copy the model instantiates the generics with:
\* (), u8, u16 and #[repr(C, align(2))] struct Padded(u8), whose second byte
\* is padding
Types == {"unit", "u8", "u16", "padded"}

\* mem::size_of::<T>()
SizeOf(ty) ==
  CASE ty = "unit" -> 0
    [] ty = "u8"   -> 1
    [] ty = "u16"  -> 2
    [] ty = "padded" -> 2

\* the values of each type the model draws its inputs from
Values(ty) ==
  CASE ty = "unit" -> {0}
    [] ty = "u8"   -> {1, 2}
    [] ty = "u16"  -> {258}
    [] ty = "padded" -> {3}

\* the native byte order of a u16
U16Bytes(h, v) ==
  IF h = "le" THEN <<v % 256, v \div 256>> ELSE <<v \div 256, v % 256>>

U16FromBytes(h, b) ==
  IF h = "le" THEN b[1] + 256 * b[2] ELSE b[2] + 256 * b[1]

\* the memory occupied by one value of type ty on host h, padding included
Image(h, ty, v) ==
  CASE ty = "unit" -> <<>>
    [] ty = "u8"   -> <<v>>
    [] ty = "u16"  -> U16Bytes(h, v)
    [] ty = "padded" -> <<v, Uninit>>

\* a typed read of size_of::<T>() bytes
Decode(h, ty, b) ==
  CASE ty = "unit" -> 0
    [] ty = "u8"   -> b[1]
    [] ty = "u16"  -> U16FromBytes(h, b)
    [] ty = "padded" -> b[1]

\* whether a typed read of b as ty reads only initialised bytes
Readable(ty, b) ==
  /\ Len(b) >= SizeOf(ty)
  /\ \A k \in 1..SizeOf(ty) : (ty = "padded" /\ k = 2) \/ b[k] # Uninit


---------------------------------------------------------------------------
(* Typed sequences in memory *)

\* n bytes never written
UninitBytes(n) == [k \in 1..n |-> Uninit]

\* the memory of a [T] of the given elements: element i lies at byte offset
\* i * size_of::<T>(), and the whole occupies size_of_val bytes
SizeOfVal(ty, vals) == Len(vals) * SizeOf(ty)

SliceMemory(h, ty, vals) ==
  [k \in 1..SizeOfVal(ty, vals) |->
     Image(h, ty, vals[((k - 1) \div SizeOf(ty)) + 1])[((k - 1) % SizeOf(ty)) + 1]]

\* as_bytes(&value): size_of::<T>() bytes at the value's address
as_bytes(h, ty, v) == SubSeq(Image(h, ty, v), 1, SizeOf(ty))

\* a slip: the slice's element count taken for its size in bytes
as_bytes_slice_len(h, ty, vals) ==
  SubSeq(SliceMemory(h, ty, vals) \o UninitBytes(Len(vals)), 1, Len(vals))

\* as_bytes_slice(value): size_of_val(value) bytes at the slice's address
as_bytes_slice(h, ty, vals) ==
  SubSeq(SliceMemory(h, ty, vals), 1, SizeOfVal(ty, vals))

---------------------------------------------------------------------------
(* The allocator: which allocations are live and which handles own them *)

AllocIds == 1..NumAllocs

\* no allocation: the dangling pointer of a Vec of capacity 0
Dangling == 0

\* The handles that may own an allocation are "self.bytes" (the store's
\* Vec<u8>), "value" (the argument of the running call) and "raw" (the
\* bitwise copy extend makes of it).

EmptyHeap ==
  [live |-> [i \in AllocIds |-> FALSE],
   owners |-> [i \in AllocIds |-> {}],
   doubleFrees |-> 0]

FreshId(h) ==
  IF \E i \in AllocIds : ~h.live[i] /\ h.owners[i] = {}
  THEN CHOOSE i \in AllocIds :
         /\ ~h.live[i] /\ h.owners[i] = {}
         /\ \A j \in AllocIds : (~h.live[j] /\ h.owners[j] = {}) => i <= j
  ELSE Dangling

\* a new allocation owned by handle
Allocate(h, id, handle) ==
  IF id = Dangling THEN h
  ELSE [h EXCEPT !.live[id] = TRUE, !.owners[id] = {handle}]

\* a second handle to the same allocation (from_raw_parts, transmute_copy)
Alias(h, id, handle) ==
  IF id = Dangling THEN h
  ELSE [h EXCEPT !.owners[id] = @ \cup {handle}]

\* mem::forget: the handle goes away and its destructor does not run
Forget(h, handle) ==
  [h EXCEPT !.owners = [i \in AllocIds |-> h.owners[i] \ {handle}]]

\* the handle's destructor runs: its allocation, if any, is freed
DropHandle(h, handle) ==
  LET mine == {i \in AllocIds : handle \in h.owners[i]}
      dbl  == Cardinality({i \in mine : ~h.live[i]})
  IN [live |-> [i \in AllocIds |-> h.live[i] /\ i \notin mine],
      owners |-> [i \in AllocIds |-> h.owners[i] \ {handle}],
      doubleFrees |-> h.doubleFrees + dbl]


---------------------------------------------------------------------------
(* Vec<u8>: a pointer, the memory of its allocation (capacity bytes) and  *)
(* its length.  The operations take and return a world [self, heap].      *)

Cap(v) == Len(v.buf)

World(v, h) == [self |-> v, heap |-> h]

\* Vec::new(): no allocation
VecNew == [ptr |-> Dangling, buf |-> <<>>, len |-> 0]

\* Vec::with_capacity(n): exactly n bytes, none initialised
VecWithCapacity(h, n, handle) ==
  IF n = 0 THEN World(VecNew, h)
  ELSE LET id == FreshId(h)
       IN World([ptr |-> id, buf |-> UninitBytes(n), len |-> 0],
                Allocate(h, id, handle))

\* a slip: growth into a new buffer without copying the old bytes over
VecReserveNoCopy(w, additional) ==
  LET v == w.self
      newcap == Max(Max(Cap(v) * 2, v.len + additional), MinNonZeroCap)
  IN IF Cap(v) - v.len >= additional THEN w
     ELSE IF Cap(v) = 0
     THEN LET id == FreshId(w.heap)
          IN World([ptr |-> id, buf |-> UninitBytes(newcap), len |-> v.len],
                   Allocate(w.heap, id, "self.bytes"))
     ELSE World([v EXCEPT !.buf = UninitBytes(newcap)], w.heap)

\* Vec::reserve(additional): amortised growth, the old bytes stay in place
VecReserve(w, additional) ==
  LET v == w.self
      newcap == Max(Max(Cap(v) * 2, v.len + additional), MinNonZeroCap)
  IN IF Cap(v) - v.len >= additional THEN w
     ELSE IF Cap(v) = 0
     THEN LET id == FreshId(w.heap)
          IN World([ptr |-> id, buf |-> UninitBytes(newcap), len |-> v.len],
                   Allocate(w.heap, id, "self.bytes"))
     ELSE World([v EXCEPT !.buf = v.buf \o UninitBytes(newcap - Cap(v))],
                w.heap)

\* Vec<u8>::extend_from_slice(raw), and Vec<u8>::extend(raw) for a slice:
\* reserve, then copy raw to the bytes after len
VecAppend(w, raw) ==
  LET r == VecReserve(w, Len(raw))
      v == r.self
  IN World([ptr |-> v.ptr,
            buf |-> [k \in 1..Cap(v) |->
                       IF k > v.len /\ k <= v.len + Len(raw)
                       THEN raw[k - v.len] ELSE v.buf[k]],
            len |-> v.len + Len(raw)],
           r.heap)

\* Vec::from_raw_parts(ptr, length, capacity) over the memory found at ptr
VecFromRawParts(ptr, memory, length, capacity) ==
  [ptr |-> ptr, buf |-> SubSeq(memory, 1, capacity), len |-> length]

---------------------------------------------------------------------------
(* A source Vec<T>: [ty, data, cap, ptr], owned by the handle "value" *)

VecCapacity(ty, n, spare) == IF SizeOf(ty) = 0 THEN UsizeMax ELSE n + spare

\* the memory of the Vec's allocation: its elements, then its spare capacity
VecMemory(h, vec) ==
  SliceMemory(h, vec.ty, vec.data)
    \o UninitBytes((vec.cap - Len(vec.data)) * SizeOf(vec.ty))

\* the caller's Vec<T> with the given elements and spare capacity
MakeVec(h, ty, data, spare) ==
  LET cap == VecCapacity(ty, Len(data), spare)
      id  == IF cap * SizeOf(ty) > 0 THEN FreshId(h) ELSE Dangling
  IN [vec |-> [ty |-> ty, data |-> data, cap |-> cap, ptr |-> id],
      heap |-> Allocate(h, id, "value")]


---------------------------------------------------------------------------
(* Iterables handed to extend: [kind, ty, data, front, back, cap, ptr].   *)
(* data is the backing memory's elements; the elements not yet yielded    *)
(* are data[front+1 .. back].                                             *)

\* the iterables T: IntoIterator<Item = A> the model calls extend with
IterKinds ==
  {"Copied<slice::Iter>", "Cloned<slice::Iter>", "vec::IntoIter", "Vec",
   "VecDeque", "array::IntoIter"}

\* the kinds that own their backing allocation (their drop frees it)
Owning(kind) == kind \in {"vec::IntoIter", "Vec", "VecDeque"}

\* the kinds that can have been advanced before the call
Advanceable(kind) == kind # "Vec"

\* std::any::type_name::<T>(): the type's path and its argument, no lifetimes
type_name(kind, ty) == [ctor |-> kind, arg |-> ty]

\* transmute_copy::<_, U>(&value): a bitwise copy of the handle
TransmuteCopy(h, it, handle) ==
  IF Owning(it.kind) THEN Alias(h, it.ptr, handle) ELSE h

\* a slip: the whole backing slice, the yielded elements included
IterWholeSlice(it) == it.data

\* slice::Iter::as_slice, IterMut::into_slice, vec::IntoIter::as_slice and
\* Vec::as_slice: the elements between the copy's two pointers
IterAsSlice(it) == SubSeq(it.data, it.front + 1, it.back)

\* what iterating the value yields, in order
Yielded(it) == [i \in 1..(it.back - it.front) |-> it.data[it.front + i]]

\* the caller's iterable, allocated when its kind owns a buffer
MakeIter(h, kind, ty, data, front, back, spare) ==
  LET cap == VecCapacity(ty, Len(data), spare)
      id  == IF Owning(kind) /\ cap * SizeOf(ty) > 0 THEN FreshId(h)
             ELSE Dangling
  IN [it |-> [kind |-> kind, ty |-> ty, data |-> data, front |-> front,
              back |-> back, cap |-> cap, ptr |-> id],
      heap |-> Allocate(h, id, "value")]

---------------------------------------------------------------------------
(* UntypedBytes { bytes: Vec<u8> } *)

new(h) == World(VecNew, h)

with_capacity(h, capacity) == VecWithCapacity(h, capacity, "self.bytes")

\* a slip: the capacity taken for the length
from_vec_cap_as_len(hst, h, value) ==
  LET size  == SizeOf(value.ty)
      bytes == VecFromRawParts(value.ptr, VecMemory(hst, value),
                               value.cap * size, value.cap * size)
      h1    == Alias(h, value.ptr, "self.bytes")
  IN World(bytes, Forget(h1, "value"))

\* the store takes the Vec's allocation as its own and forgets the Vec
from_vec(hst, h, value) ==
  LET size  == SizeOf(value.ty)
      bytes == VecFromRawParts(value.ptr, VecMemory(hst, value),
                               Len(value.data) * size, value.cap * size)
      h1    == Alias(h, value.ptr, "self.bytes")
  IN World(bytes, Forget(h1, "value"))

\* a slip: only the first element's bytes are copied
from_slice_first(hst, h, ty, value) ==
  LET result == with_capacity(h, SizeOfVal(ty, value))
      raw    == as_bytes_slice(hst, ty, IF value = <<>> THEN <<>>
                                        ELSE <<Head(value)>>)
  IN VecAppend(result, raw)

from_slice(hst, h, ty, value) ==
  LET result == with_capacity(h, SizeOfVal(ty, value))
      raw    == as_bytes_slice(hst, ty, value)
  IN VecAppend(result, raw)

is_empty(v) == v.len = 0

len(v) == v.len

\* a slip: the capacity is released but the length is kept
clear_keeps_len(w) == w

clear(w) == World([w.self EXCEPT !.len = 0], w.heap)

\* a slip: one byte is taken at the value's address, not size_of::<T>()
push_one_byte(hst, w, ty, value) ==
  VecAppend(w, SubSeq(as_bytes(hst, ty, value), 1,
                      IF SizeOf(ty) = 0 THEN 0 ELSE 1))

push(hst, w, ty, value) == VecAppend(w, as_bytes(hst, ty, value))

extend_from_slice(hst, w, ty, value) ==
  VecAppend(w, as_bytes_slice(hst, ty, value))

as_slice(v) == SubSeq(v.buf, 1, v.len)

\* cast::<T>(): the outcomes of the call.  With debug_assertions a size
\* mismatch panics before the copy.  Otherwise size_of::<T>() bytes are
\* copied from the buffer's start; reading past the allocation or reading
\* uninitialised bytes as a T is undefined: any value may come out.
NoCast == [debug |-> FALSE, panicked |-> FALSE, ub |-> FALSE, value |-> 0]

\* a slip: the copy is one byte short
cast_short_copy(hst, v, ty, debug) ==
  LET size == SizeOf(ty)
      src  == SubSeq(v.buf, 1, size - 1) \o UninitBytes(1)
  IN IF debug /\ size # len(v)
     THEN {[NoCast EXCEPT !.debug = debug, !.panicked = TRUE]}
     ELSE IF size = 0
     THEN {[NoCast EXCEPT !.debug = debug, !.value = Decode(hst, ty, <<>>)]}
     ELSE IF size <= Cap(v) /\ Readable(ty, src)
     THEN {[NoCast EXCEPT !.debug = debug, !.value = Decode(hst, ty, src)]}
     ELSE {[NoCast EXCEPT !.debug = debug, !.ub = TRUE, !.value = x] :
             x \in Values(ty)}

\* a slip: the assertion only rejects a store that is too short
cast_assert_le(hst, v, ty, debug) ==
  LET size == SizeOf(ty)
      src  == SubSeq(v.buf, 1, size)
  IN IF debug /\ size > len(v)
     THEN {[NoCast EXCEPT !.debug = debug, !.panicked = TRUE]}
     ELSE IF size <= Cap(v) /\ Readable(ty, src)
     THEN {[NoCast EXCEPT !.debug = debug, !.value = Decode(hst, ty, src)]}
     ELSE {[NoCast EXCEPT !.debug = debug, !.ub = TRUE, !.value = x] :
             x \in Values(ty)}

cast(hst, v, ty, debug) ==
  LET size == SizeOf(ty)
      src  == SubSeq(v.buf, 1, size)
  IN IF debug /\ size # len(v)
     THEN {[NoCast EXCEPT !.debug = debug, !.panicked = TRUE]}
     ELSE IF size <= Cap(v) /\ Readable(ty, src)
     THEN {[NoCast EXCEPT !.debug = debug, !.value = Decode(hst, ty, src)]}
     ELSE {[NoCast EXCEPT !.debug = debug, !.ub = TRUE, !.value = x] :
             x \in Values(ty)}

\* impl From<T>: from_vec(vec![value])
from_value(hst, h, ty, value) ==
  LET made == MakeVec(h, ty, <<value>>, 0)
  IN from_vec(hst, made.heap, made.vec)

\* the fallback loop of extend: for elem in value { self.push(elem) }
RECURSIVE PushEach(_, _, _, _)
PushEach(hst, w, ty, elems) ==
  IF elems = <<>> THEN w
  ELSE PushEach(hst, push(hst, w, ty, Head(elems)), ty, Tail(elems))

\* a bulk branch over a borrowed slice iterator (Copied/Cloned over
\* slice::Iter or slice::IterMut): copy the iterator, append its slice
ExtendBorrowed(hst, w, value) ==
  LET raw  == value
      h1   == TransmuteCopy(w.heap, value, "raw")
      bulk == extend_from_slice(hst, World(w.self, h1), value.ty,
                                IterAsSlice(raw))
  IN World(bulk.self, DropHandle(DropHandle(bulk.heap, "raw"), "value"))

\* a slip: the original is not forgotten, so it is dropped as well as its copy
ExtendOwnedNoForget(hst, w, value) ==
  LET raw  == value
      h1   == TransmuteCopy(w.heap, value, "raw")
      bulk == extend_from_slice(hst, World(w.self, h1), value.ty,
                                IterAsSlice(raw))
  IN World(bulk.self, DropHandle(DropHandle(bulk.heap, "raw"), "value"))

\* a bulk branch over an owned buffer (vec::IntoIter<A>, Vec<A>): copy the
\* handle, forget the original, append the copy's slice, drop the copy
ExtendOwned(hst, w, value) ==
  LET raw  == value
      h1   == TransmuteCopy(w.heap, value, "raw")
      h2   == Forget(h1, "value")
      bulk == extend_from_slice(hst, World(w.self, h2), value.ty,
                                IterAsSlice(raw))
  IN World(bulk.self, DropHandle(bulk.heap, "raw"))

\* the generic branch: push every element the iterator yields, then drop it
ExtendFallback(hst, w, value) ==
  LET each == PushEach(hst, w, value.ty, Yielded(value))
  IN World(each.self, DropHandle(each.heap, "value"))

\* impl Extend<A>: dispatch on type_name::<T>()
extend(hst, w, value) ==
  LET A == value.ty
      T == type_name(value.kind, A)
  IN IF T = type_name("Copied<slice::Iter>", A)
     THEN ExtendBorrowed(hst, w, value)
     ELSE IF T = type_name("Cloned<slice::Iter>", A)
     THEN ExtendBorrowed(hst, w, value)
     ELSE IF T = type_name("Copied<slice::IterMut>", A)
     THEN ExtendBorrowed(hst, w, value)
     ELSE IF T = type_name("Cloned<slice::IterMut>", A)
     THEN ExtendBorrowed(hst, w, value)
     ELSE IF T = type_name("vec::IntoIter", A)
     THEN ExtendOwned(hst, w, value)
     ELSE IF T = type_name("Vec", A)
     THEN ExtendOwned(hst, w, value)
     ELSE ExtendFallback(hst, w, value)

---------------------------------------------------------------------------
(* The state machine.  alive: a store exists; self: its Vec<u8>; heap: the *)
(* allocator; host: the byte order; appended: the raw images supplied      *)
(* since the constructor or the last clear, in order; last: the call that  *)
(* has just returned (the store before it, its inputs, cast's outcome),    *)
(* which the caller looks at and lets go before the next call; origin: the *)
(* constructor call, for as long as the store is as it was constructed.    *)

NoIter ==
  [kind |-> "none", ty |-> "unit", data |-> <<>>, front |-> 0, back |-> 0,
   cap |-> 0, ptr |-> Dangling]

Call(op, ty, vals) ==
  [op |-> op, pre |-> VecNew, ty |-> ty, vals |-> vals, it |-> NoIter,
   cap |-> 0, res |-> NoCast]

NoCall == Call("none", "unit", <<>>)

Idle == last = NoCall

\* the raw images of the values, one after the other
RECURSIVE Images(_, _, _)
Images(hst, ty, vals) ==
  IF vals = <<>> THEN <<>>
  ELSE Image(hst, ty, Head(vals)) \o Images(hst, ty, Tail(vals))

\* the typed sequences of at most MaxElems values
SeqsOf(ty) == UNION {[1..n -> Values(ty)] : n \in 0..MaxElems}

\* the element an advanced iterator has already yielded at either end
Consumed(ty) == CHOOSE x \in Values(ty) : TRUE

Fits(n) == n <= MaxLen

Init ==
  /\ alive = FALSE
  /\ self = VecNew
  /\ heap = EmptyHeap
  /\ host \in {"le", "be"}
  /\ appended = <<>>
  /\ origin = NoCall
  /\ last = NoCall

Constructed(w, call) ==
  /\ alive' = TRUE
  /\ self' = w.self
  /\ heap' = w.heap
  /\ appended' = Images(host, call.ty, call.vals)
  /\ origin' = call
  /\ last' = [call EXCEPT !.pre = self]
  /\ UNCHANGED host

New ==
  /\ Idle /\ ~alive
  /\ Constructed(new(heap), Call("new", "unit", <<>>))

WithCapacity ==
  /\ Idle /\ ~alive
  /\ \E n \in 0..MaxCap :
       Constructed(with_capacity(heap, n),
                   [Call("with_capacity", "unit", <<>>) EXCEPT !.cap = n])

FromVec ==
  /\ Idle /\ ~alive
  /\ \E ty \in Types : \E data \in SeqsOf(ty) : \E spare \in 0..MaxSpare :
       LET made == MakeVec(heap, ty, data, spare)
       IN /\ Fits(SizeOfVal(ty, data))
          /\ Constructed(from_vec(host, made.heap, made.vec),
                         [Call("from_vec", ty, data) EXCEPT
                            !.cap = made.vec.cap])

FromSlice ==
  /\ Idle /\ ~alive
  /\ \E ty \in Types : \E vals \in SeqsOf(ty) :
       /\ Fits(SizeOfVal(ty, vals))
       /\ Constructed(from_slice(host, heap, ty, vals),
                      Call("from_slice", ty, vals))

FromValue ==
  /\ Idle /\ ~alive
  /\ \E ty \in Types : \E v \in Values(ty) :
       Constructed(from_value(host, heap, ty, v), Call("from", ty, <<v>>))

Appended(w, call) ==
  /\ self' = w.self
  /\ heap' = w.heap
  /\ appended' = appended \o Images(host, call.ty, call.vals)
  /\ origin' = NoCall
  /\ last' = [call EXCEPT !.pre = self]
  /\ UNCHANGED <<alive, host>>

Push ==
  /\ Idle /\ alive
  /\ \E ty \in Types : \E v \in Values(ty) :
       /\ Fits(len(self) + SizeOf(ty))
       /\ Appended(push(host, World(self, heap), ty, v),
                   Call("push", ty, <<v>>))

ExtendFromSlice ==
  /\ Idle /\ alive
  /\ \E ty \in Types : \E vals \in SeqsOf(ty) :
       /\ Fits(len(self) + SizeOfVal(ty, vals))
       /\ Appended(extend_from_slice(host, World(self, heap), ty, vals),
                   Call("extend_from_slice", ty, vals))

\* the iterable holds rest, not yet yielded; an advanced one has yielded an
\* element at its front and one at its back
Extend ==
  /\ Idle /\ alive
  /\ \E kind \in IterKinds : \E ty \in Types : \E rest \in SeqsOf(ty) :
     \E advanced \in BOOLEAN :
       LET data == IF advanced
                   THEN <<Consumed(ty)>> \o rest \o <<Consumed(ty)>>
                   ELSE rest
           front == IF advanced THEN 1 ELSE 0
           made == MakeIter(heap, kind, ty, data, front, front + Len(rest), 0)
       IN /\ Advanceable(kind) \/ ~advanced
          /\ Fits(len(self) + SizeOfVal(ty, rest))
          /\ Appended(extend(host, World(self, made.heap), made.it),
                      [Call("extend", ty, rest) EXCEPT !.it = made.it])

Clear ==
  /\ Idle /\ alive
  /\ self' = clear(World(self, heap)).self
  /\ heap' = clear(World(self, heap)).heap
  /\ appended' = <<>>
  /\ origin' = NoCall
  /\ last' = [Call("clear", "unit", <<>>) EXCEPT !.pre = self]
  /\ UNCHANGED <<alive, host>>

Cast ==
  /\ Idle /\ alive
  /\ \E ty \in Types : \E debug \in BOOLEAN :
     \E res \in cast(host, self, ty, debug) :
       /\ last' = [Call("cast", ty, <<>>) EXCEPT !.pre = self, !.res = res]
       /\ UNCHANGED <<alive, self, heap, host, appended, origin>>

\* the owner releases the store: its Vec<u8> is dropped
Drop ==
  /\ Idle /\ alive
  /\ alive' = FALSE
  /\ self' = VecNew
  /\ heap' = DropHandle(heap, "self.bytes")
  /\ appended' = <<>>
  /\ origin' = NoCall
  /\ last' = [Call("drop", "unit", <<>>) EXCEPT !.pre = self]
  /\ UNCHANGED host

\* the caller is done with the call's result
Return ==
  /\ ~Idle
  /\ last' = NoCall
  /\ UNCHANGED <<alive, self, heap, host, appended, origin>>

Next ==
  \/ New
  \/ WithCapacity
  \/ FromVec
  \/ FromSlice
  \/ FromValue
  \/ Push
  \/ ExtendFromSlice
  \/ Extend
  \/ Clear
  \/ Cast
  \/ Drop
  \/ Return

Spec == Init /\ [][Next]_vars

---------------------------------------------------------------------------
(* The claims *)

Appends == {"push", "extend_from_slice", "extend"}

IsPrefix(a, b) == Len(a) <= Len(b) /\ SubSeq(b, 1, Len(a)) = a

\* the store before the last call, on a fresh allocator
Before == World(last.pre, EmptyHeap)

\* the last append, applied to store v instead
ReApply(v) ==
  LET w == World(v, EmptyHeap)
  IN CASE last.op = "push" -> push(host, w, last.ty, last.vals[1]).self
       [] last.op = "extend_from_slice" ->
            extend_from_slice(host, w, last.ty, last.vals).self
       [] last.op = "extend" -> extend(host, w, last.it).self

\* store v with no spare capacity, and with MaxLen spare bytes more
Tight(v) == [v EXCEPT !.buf = SubSeq(v.buf, 1, v.len)]
Roomy(v) == [v EXCEPT !.buf = v.buf \o UninitBytes(MaxLen)]

\* C1: the stored bytes are the raw images of the values supplied by the
\* constructor and the appends since the last clear, in order, no more and
\* no fewer
C1_ContentIsAppendedImages ==
  alive => /\ as_slice(self) = appended
           /\ len(self) = Len(appended)

C1_Witness ==
  /\ last.op = "push" /\ last.ty = "padded"
  /\ len(last.pre) = 1 /\ len(self) = 3

\* C2: From<T>(v) followed by cast::<T>() returns v, and the store holds
\* exactly size_of::<T>() bytes, v's image, so the cast's assertion passes
C2_FromThenCastRoundTrip ==
  /\ (alive /\ origin.op = "from") =>
       /\ len(self) = SizeOf(origin.ty)
       /\ as_slice(self) = Image(host, origin.ty, origin.vals[1])
  /\ (last.op = "cast" /\ origin.op = "from" /\ last.ty = origin.ty) =>
       /\ ~last.res.panicked
       /\ ~last.res.ub
       /\ last.res.value = origin.vals[1]

C2_Witness ==
  /\ last.op = "cast" /\ origin.op = "from" /\ last.ty = "u16"
  /\ origin.ty = "u16" /\ last.res.debug /\ last.res.value = 258

\* C3: extend leaves the bytes the per-element loop would leave, whichever
\* branch it takes, and appends exactly the elements not yet yielded
C3_ExtendBulkEqualsFallback ==
  last.op = "extend" =>
    /\ as_slice(self) = as_slice(ExtendFallback(host, Before, last.it).self)
    /\ as_slice(self) = as_slice(last.pre) \o Images(host, last.ty, last.vals)

C3_Witness ==
  /\ last.op = "extend" /\ last.it.kind = "vec::IntoIter"
  /\ last.it.front > 0 /\ last.it.back < Len(last.it.data)
  /\ Len(last.vals) = 2 /\ len(last.pre) > 0

\* C4: extend_from_slice leaves the content and length that pushing the same
\* elements one by one leaves; with no element both leave the store as it was
C4_PushesEqualExtendFromSlice ==
  last.op = "extend_from_slice" =>
    LET pushed == PushEach(host, Before, last.ty, last.vals).self
    IN /\ as_slice(self) = as_slice(pushed)
       /\ len(self) = len(pushed)
       /\ last.vals = <<>> => (self = last.pre /\ pushed = last.pre)

C4_Witness ==
  /\ last.op = "extend_from_slice" /\ Len(last.vals) = 2
  /\ last.ty = "u8" /\ last.vals[1] # last.vals[2] /\ len(last.pre) > 0
  /\ Cap(self) # Cap(last.pre)

\* C5: with debug assertions cast panics exactly when len() differs from
\* size_of::<T>(), before anything is copied, and the store is as it was
C5_CastAssertsSizeInDebug ==
  (last.op = "cast" /\ last.res.debug) =>
    /\ last.res.panicked <=> (len(last.pre) # SizeOf(last.ty))
    /\ last.res.panicked => (last.res.value = NoCast.value /\ ~last.res.ub)
    /\ self = last.pre

C5_Witness ==
  /\ last.op = "cast" /\ last.res.debug /\ last.res.panicked
  /\ len(self) > SizeOf(last.ty) /\ SizeOf(last.ty) > 0

\* C6: from_vec leaves the bytes that new() and a push per element leave;
\* len is the element count times the size; capacity is the Vec's capacity
\* times the size and at least len
C6_FromVecEqualsPushes ==
  last.op = "from_vec" =>
    /\ as_slice(self)
         = as_slice(PushEach(host, new(EmptyHeap), last.ty, last.vals).self)
    /\ len(self) = Len(last.vals) * SizeOf(last.ty)
    /\ Cap(self) = last.cap * SizeOf(last.ty)
    /\ Cap(self) >= len(self)

C6_Witness ==
  /\ last.op = "from_vec" /\ last.ty = "u16" /\ Len(last.vals) = 1
  /\ last.cap = 2 /\ Cap(self) = 4 /\ len(self) = 2

\* C7: every live allocation has one owner, the store; nothing is freed
\* twice, nothing is leaked, and the store's buffer is live
C7_OneOwnerOneFree ==
  /\ heap.doubleFrees = 0
  /\ \A i \in AllocIds :
       /\ heap.live[i] => (alive /\ heap.owners[i] = {"self.bytes"}
                           /\ self.ptr = i)
       /\ ~heap.live[i] => heap.owners[i] = {}
  /\ (alive /\ Cap(self) > 0) => (self.ptr # Dangling /\ heap.live[self.ptr])

C7_Witness ==
  /\ last.op = "extend" /\ last.it.kind = "Vec" /\ last.it.ptr # Dangling
  /\ Cap(last.pre) > 0 /\ heap.live[self.ptr]

\* C8: from_slice holds count * size_of::<T>() bytes, the elements' images
\* in order, and is empty exactly when that product is 0
C8_FromSliceLength ==
  last.op = "from_slice" =>
    /\ len(self) = Len(last.vals) * SizeOf(last.ty)
    /\ as_slice(self) = Images(host, last.ty, last.vals)
    /\ is_empty(self) <=> (Len(last.vals) * SizeOf(last.ty) = 0)

C8_Witness ==
  /\ last.op = "from_slice" /\ last.ty = "u8" /\ last.vals = <<2, 1>>
  /\ len(self) = 2 /\ ~is_empty(self)

\* C9: after clear the store is empty whatever it held, clearing again
\* changes nothing, and an append to a cleared store holds only what was
\* appended
C9_ClearEmpties ==
  /\ last.op = "clear" =>
       /\ is_empty(self) /\ len(self) = 0 /\ as_slice(self) = <<>>
       /\ clear(World(self, heap)) = World(self, heap)
  /\ (last.op \in Appends /\ is_empty(last.pre)) =>
       /\ as_slice(self) = Images(host, last.ty, last.vals)
       /\ len(self) = SizeOfVal(last.ty, last.vals)

C9_Witness ==
  /\ last.op = "push" /\ len(last.pre) = 0 /\ Cap(last.pre) >= 2
  /\ last.pre.buf[1] # Uninit /\ last.pre.buf[2] # Uninit
  /\ len(self) = 1 /\ self.buf[1] # last.pre.buf[1]

\* C10: an append keeps the stored bytes as a prefix and adds exactly the
\* size of what it appends, with or without reallocation; the result does
\* not depend on the capacity; capacity is never below len
C10_GrowthTransparent ==
  /\ alive => Cap(self) >= len(self)
  /\ last.op \in Appends =>
       /\ IsPrefix(as_slice(last.pre), as_slice(self))
       /\ len(self) = len(last.pre) + SizeOfVal(last.ty, last.vals)
       /\ as_slice(ReApply(Tight(last.pre))) = as_slice(self)
       /\ as_slice(ReApply(Roomy(last.pre))) = as_slice(self)

C10_Witness ==
  /\ last.op \in Appends /\ len(last.pre) > 0
  /\ Cap(last.pre) = len(last.pre) /\ Cap(self) = MinNonZeroCap

====
